---------------------------- MODULE Spec2Model ----------------------------
(***************************************************************************)
(* kubectl-view-allocations, src/main.rs: one run of main().               *)
(*   collect_from_nodes, collect_from_pods push Resource observations,     *)
(*   make_kind_x_usage groups them by [kind, node name] and sorts the rows,*)
(*   display_with_prettytable computes the tree prefixes and the free      *)
(*   capacity of every row.                                                *)
(* Qty (mod qty) and provide_prefix (mod tree) are modules of the crate    *)
(* whose files are not part of src/; they are modelled from the design     *)
(* document (sections 4.1 and 4.3).                                        *)
(***************************************************************************)
EXTENDS Integers, Sequences, FiniteSets

VARIABLES
    pc,          \* position of main(): nodes, pods, aggregate, display, done, failed
    resources,   \* main.rs:169  Vec<Resource>
    consumed,    \* history: number of API quantity strings the collectors looked at
    parseFailed, \* history: some Qty::from_str returned Err
    res,         \* main.rs:173  the rows returned by make_kind_x_usage
    table        \* main.rs:182  rows added to the table, with their prefix information

vars == <<pc, resources, consumed, parseFailed, res, table>>

----------------------------------------------------------------------------
(* Bounds of the model *)

\* The number of quantity strings the cluster API hands to one run.
MaxObs == 3

(* The cluster the API lists.  Strings are TLA+ strings; the texts of
   quantities are sequences of characters, so that parsing has work to do. *)
Kinds == {"cpu", "mem"}
NodeNames == {"n1", "n2"}
\* The quantity strings the API may report for a kind; "1x" is no quantity.
Texts(kind) ==
    IF kind = "cpu"
    THEN { <<"1">>, <<"2">>, <<"1", "x">> }
    ELSE { <<"1", "G", "i">>, <<"1", "x">> }

----------------------------------------------------------------------------
(* Qty: exact quantities.  A value is hi * LimbBase + lo thousandths of the
   base unit, 0 <= lo < LimbBase: an arbitrary-precision integer whose limbs
   fit the model checker's machine integers. *)

LimbBase == 1073741824

QtyDefault == [hi |-> 0, lo |-> 0]

QtyAdd(a, b) ==
    LET s == a.lo + b.lo
    IN  [hi |-> a.hi + b.hi + (s \div LimbBase), lo |-> s % LimbBase]

QtySub(a, b) ==
    IF a.lo >= b.lo
    THEN [hi |-> a.hi - b.hi, lo |-> a.lo - b.lo]
    ELSE [hi |-> a.hi - b.hi - 1, lo |-> (a.lo - b.lo) + LimbBase]

QtyGt(a, b) == a.hi > b.hi \/ (a.hi = b.hi /\ a.lo > b.lo)

QtyIsNegative(a) == a.hi < 0

Digits == {"0", "1", "2", "3", "4", "5", "6", "7", "8", "9"}

DigitValue(c) ==
    CASE c = "0" -> 0 [] c = "1" -> 1 [] c = "2" -> 2 [] c = "3" -> 3
      [] c = "4" -> 4 [] c = "5" -> 5 [] c = "6" -> 6 [] c = "7" -> 7
      [] c = "8" -> 8 [] c = "9" -> 9

\* The scale of a suffix, in thousandths of the base unit; <<>> is no suffix.
Suffixes ==
    { <<>>, <<"m">>, <<"k">>, <<"K", "i">>, <<"M", "i">>, <<"G", "i">> }

SuffixScale(s) ==
    CASE s = <<>>           -> [hi |-> 0, lo |-> 1000]
      [] s = <<"m">>        -> [hi |-> 0, lo |-> 1]
      [] s = <<"k">>        -> [hi |-> 0, lo |-> 1000000]
      [] s = <<"K", "i">>   -> [hi |-> 0, lo |-> 1024000]
      [] s = <<"M", "i">>   -> [hi |-> 0, lo |-> 1048576000]
      [] s = <<"G", "i">>   -> [hi |-> 1000, lo |-> 0]

RECURSIVE DigitCount(_)
DigitCount(text) ==
    IF text # <<>> /\ Head(text) \in Digits
    THEN 1 + DigitCount(Tail(text))
    ELSE 0

RECURSIVE Mantissa(_, _)
Mantissa(text, n) ==
    IF n = 0 THEN 0
    ELSE 10 * Mantissa(text, n - 1) + DigitValue(text[n])

RECURSIVE QtyTimes(_, _)
QtyTimes(q, n) == IF n = 0 THEN QtyDefault ELSE QtyAdd(QtyTimes(q, n - 1), q)

\* Qty::from_str: Ok(q) is [ok |-> TRUE, qty |-> q], Err is [ok |-> FALSE].
QtyFromStr(text) ==
    LET n == DigitCount(text)
        suffix == SubSeq(text, n + 1, Len(text))
    IN  IF n = 0 \/ suffix \notin Suffixes
        THEN [ok |-> FALSE]
        ELSE [ok |-> TRUE, qty |-> QtyTimes(SuffixScale(suffix), Mantissa(text, n))]

----------------------------------------------------------------------------
(* Resource, QtyOfUsage *)

\* Option<String>: None is <<>>, Some(s) is <<s>>.
None == <<>>
Some(s) == <<s>>

\* Location: namespace, pod_name and container_name are written by the
\* collectors and read by nothing; the record keeps node_name.
Resource(kind, quantity, node_name, usage) ==
    [kind |-> kind, quantity |-> quantity,
     location |-> [node_name |-> node_name], usage |-> usage]

QtyOfUsageDefault ==
    [limit |-> QtyDefault, requested |-> QtyDefault, allocatable |-> QtyDefault]

\* QtyOfUsage::calc_free
CalcFreeUnguarded(q) ==
    LET total_used == IF QtyGt(q.limit, q.requested) THEN q.limit ELSE q.requested
    IN  QtySub(q.allocatable, total_used)

CalcFree(q) ==
    LET total_used == IF QtyGt(q.limit, q.requested) THEN q.limit ELSE q.requested
    IN  IF QtyGt(q.allocatable, total_used)
        THEN QtySub(q.allocatable, total_used)
        ELSE QtyDefault

\* The closure of the fold in sum_by_usage
SumStepMisrouted(acc, v) ==
    CASE v.usage = "Limit" -> [acc EXCEPT !.requested = QtyAdd(@, v.quantity)]
      [] v.usage = "Requested" -> [acc EXCEPT !.requested = QtyAdd(@, v.quantity)]
      [] v.usage = "Allocatable" -> [acc EXCEPT !.allocatable = QtyAdd(@, v.quantity)]

SumStep(acc, v) ==
    CASE v.usage = "Limit" -> [acc EXCEPT !.limit = QtyAdd(@, v.quantity)]
      [] v.usage = "Requested" -> [acc EXCEPT !.requested = QtyAdd(@, v.quantity)]
      [] v.usage = "Allocatable" -> [acc EXCEPT !.allocatable = QtyAdd(@, v.quantity)]

RECURSIVE SumByUsage(_)
SumByUsage(rsrcs) ==
    IF rsrcs = <<>> THEN QtyOfUsageDefault
    ELSE SumStep(SumByUsage(SubSeq(rsrcs, 1, Len(rsrcs) - 1)), rsrcs[Len(rsrcs)])

----------------------------------------------------------------------------
(* Grouping *)

ExtractKind(e) == e.kind

ExtractNodeName(e) ==
    IF e.location.node_name = None THEN "" ELSE e.location.node_name[1]

\* group_by_fct of make_kind_x_usage: vec![extract_kind, extract_node_name]
GroupByFct == <<"extract_kind", "extract_node_name">>

Call(group_by, e) ==
    IF group_by = "extract_kind" THEN ExtractKind(e) ELSE ExtractNodeName(e)

\* group_by_fct.get(group_by_depth), the index counted from 0
GroupByFctGetClamped(depth) ==
    IF depth <= Len(GroupByFct)
    THEN Some(GroupByFct[IF depth < Len(GroupByFct) THEN depth + 1 ELSE depth])
    ELSE None

GroupByFctGet(depth) ==
    IF depth < Len(GroupByFct) THEN Some(GroupByFct[depth + 1]) ELSE None

\* The byte order of the strings that occur as keys (String's Ord).
StrOrd(s) ==
    CASE s = "" -> 0 [] s = "cpu" -> 1 [] s = "mem" -> 2
      [] s = "n1" -> 3 [] s = "n2" -> 4

\* Vec<String>'s Ord: lexicographic, a proper prefix first.
RECURSIVE PathLess(_, _)
PathLess(a, b) ==
    IF b = <<>> THEN FALSE
    ELSE IF a = <<>> THEN TRUE
    ELSE IF Head(a) # Head(b) THEN StrOrd(Head(a)) < StrOrd(Head(b))
    ELSE PathLess(Tail(a), Tail(b))

RECURSIVE SelectByKey(_, _, _)
SelectByKey(rsrcs, group_by, key) ==
    IF rsrcs = <<>> THEN <<>>
    ELSE LET rest == SelectByKey(Tail(rsrcs), group_by, key)
         IN  IF Call(group_by, Head(rsrcs)) = key
             THEN <<Head(rsrcs)>> \o rest
             ELSE rest

\* All orders in which a HashMap with these keys may be iterated.
RECURSIVE IterationOrders(_)
IterationOrders(keys) ==
    IF keys = {} THEN {<<>>}
    ELSE UNION {{<<k>> \o o : o \in IterationOrders(keys \ {k})} : k \in keys}

\* What Itertools::group_by would give: a group per run of adjacent elements
\* with the same key.
RECURSIVE AdjacentRuns(_, _)
AdjacentRuns(rsrcs, group_by) ==
    IF rsrcs = <<>> THEN <<>>
    ELSE LET before == AdjacentRuns(SubSeq(rsrcs, 1, Len(rsrcs) - 1), group_by)
             e == rsrcs[Len(rsrcs)]
             key == Call(group_by, e)
         IN  IF before # <<>> /\ before[Len(before)].key = key
             THEN [before EXCEPT ![Len(before)].group = Append(@, e)]
             ELSE Append(before, [key |-> key, group |-> <<e>>])

GroupByAdjacent(rsrcs, group_by) == {AdjacentRuns(rsrcs, group_by)}

\* rsrcs.iter().map(|e| (group_by(e), *e)).into_group_map() and its iteration:
\* a HashMap from each key to the elements with that key, in their order;
\* the entries come in an order the hasher decides.
IntoGroupMap(rsrcs, group_by) ==
    LET keys == {Call(group_by, rsrcs[i]) : i \in 1..Len(rsrcs)}
    IN  { [i \in 1..Len(order) |->
             [key |-> order[i], group |-> SelectByKey(rsrcs, group_by, order[i])]] :
          order \in IterationOrders(keys) }

\* main.rs:94-95: the group's row is pushed, then its children.
EmitGroupChildrenFirst(key_full, group, children) ==
    children \o <<[path |-> key_full, qty |-> SumByUsage(group)]>>

EmitGroup(key_full, group, children) ==
    <<[path |-> key_full, qty |-> SumByUsage(group)]>> \o children

\* main.rs:93: the recursive call is given the group.
RecurseOnAll(rsrcs, group) == rsrcs

RecurseOn(rsrcs, group) == group

\* make_group_x_usage: the set of values `out` may have, one for each order
\* in which the group maps are iterated.
RECURSIVE MakeGroupXUsage(_, _, _)
RECURSIVE ForEachGroup(_, _, _, _)
ForEachGroup(entries, rsrcs, prefix, depth) ==
    IF entries = <<>> THEN {<<>>}
    ELSE LET key_full == Append(prefix, Head(entries).key)
             group == Head(entries).group
         IN  { EmitGroup(key_full, group, children) \o rest :
                 children \in MakeGroupXUsage(RecurseOn(rsrcs, group), key_full, depth + 1),
                 rest \in ForEachGroup(Tail(entries), rsrcs, prefix, depth) }

MakeGroupXUsage(rsrcs, prefix, depth) ==
    LET group_by == GroupByFctGet(depth)
    IN  IF group_by # None
        THEN UNION { ForEachGroup(entries, rsrcs, prefix, depth) :
                       entries \in IntoGroupMap(rsrcs, group_by[1]) }
        ELSE {<<>>}

\* slice::sort_by_key on the path: a stable sort (insertion keeps equal keys
\* in their order).
RECURSIVE InsertRow(_, _)
InsertRow(sorted, row) ==
    IF sorted = <<>> THEN <<row>>
    ELSE LET last == sorted[Len(sorted)]
         IN  IF PathLess(row.path, last.path)
             THEN Append(InsertRow(SubSeq(sorted, 1, Len(sorted) - 1), row), last)
             ELSE Append(sorted, row)

RECURSIVE StableSort(_)
StableSort(rows) ==
    IF rows = <<>> THEN <<>>
    ELSE InsertRow(StableSort(SubSeq(rows, 1, Len(rows) - 1)), rows[Len(rows)])

SortOmitted(rows) == rows

RECURSIVE Reverse(_)
Reverse(s) == IF s = <<>> THEN <<>> ELSE Append(Reverse(Tail(s)), Head(s))

SortByKeyDescending(rows) == Reverse(StableSort(rows))

SortByKey(rows) == StableSort(rows)

----------------------------------------------------------------------------
(* Display *)

\* The closure display_with_prettytable hands to tree::provide_prefix
IsParentOfWithPrefix(parent, item) ==
    /\ Len(parent.path) + 1 = Len(item.path)
    /\ SubSeq(item.path, 1, Len(parent.path)) = parent.path

IsParentOf(parent, item) == Len(parent.path) + 1 = Len(item.path)

\* tree::provide_prefix: the parent of row i is the most recent preceding row
\* for which the predicate holds; 0 when there is none.
ParentIndex(data, i) ==
    LET cands == {j \in 1..(i - 1) : IsParentOf(data[j], data[i])}
    IN  IF cands = {} THEN 0
        ELSE CHOOSE j \in cands : \A k \in cands : k <= j

ProvidePrefix(data) == [i \in 1..Len(data) |-> ParentIndex(data, i)]

\* k.last().map(..).unwrap_or("???")
LastOrDefault(k) == IF k = <<>> THEN "???" ELSE k[Len(k)]


----------------------------------------------------------------------------
(* main() *)

TypeOK ==
    /\ pc \in {"list_nodes", "nodes", "list_pods", "pods",
               "aggregate", "display", "done", "failed"}
    /\ consumed \in 0..MaxObs
    /\ parseFailed \in BOOLEAN
    /\ Len(resources) <= MaxObs

Init ==
    /\ pc = "list_nodes"
    /\ resources = <<>>
    /\ consumed = 0
    /\ parseFailed = FALSE
    /\ res = <<>>
    /\ table = <<>>

\* The `?` after Qty::from_str: where the run goes on.
AfterParseIgnoringErr(r, here) == here

AfterParse(r, here) == IF r.ok THEN here ELSE "failed"

\* api_nodes.list(..)?
ListNodes ==
    /\ pc = "list_nodes"
    /\ \E ok \in BOOLEAN : pc' = IF ok THEN "nodes" ELSE "failed"
    /\ UNCHANGED <<resources, consumed, parseFailed, res, table>>

\* Node names are unique in a cluster and a node's allocatable is a BTreeMap:
\* a node's entries are adjacent and ascend by kind.
NextAllocatable(node, kind) ==
    IF resources # <<>>
       /\ resources[Len(resources)].location.node_name = Some(node)
    THEN StrOrd(resources[Len(resources)].kind) < StrOrd(kind)
    ELSE \A i \in 1..Len(resources) : resources[i].location.node_name # Some(node)

\* collect_from_nodes, one pass of `for a in als`
CollectNode(node, kind, text) ==
    /\ pc = "nodes"
    /\ consumed < MaxObs
    /\ NextAllocatable(node, kind)
    /\ LET r == QtyFromStr(text)
       IN  /\ pc' = AfterParse(r, "nodes")
           /\ parseFailed' = (parseFailed \/ ~r.ok)
           /\ resources' = IF r.ok
                           THEN Append(resources,
                                       Resource(kind, r.qty, Some(node), "Allocatable"))
                           ELSE resources
    /\ consumed' = consumed + 1
    /\ UNCHANGED <<res, table>>

\* collect_from_nodes returns Ok(())
NodesDone ==
    /\ pc = "nodes"
    /\ pc' = "list_pods"
    /\ UNCHANGED <<resources, consumed, parseFailed, res, table>>

\* api_pods.list(..)?
ListPods ==
    /\ pc = "list_pods"
    /\ \E ok \in BOOLEAN : pc' = IF ok THEN "pods" ELSE "failed"
    /\ UNCHANGED <<resources, consumed, parseFailed, res, table>>

\* collect_from_pods, one pass of `for request in r` or `for limit in l`;
\* node_name is nominated_node_name.or(spec.node_name), an Option.
CollectPod(node_name, kind, usage, text) ==
    /\ pc = "pods"
    /\ consumed < MaxObs
    /\ LET r == QtyFromStr(text)
       IN  /\ pc' = AfterParse(r, "pods")
           /\ parseFailed' = (parseFailed \/ ~r.ok)
           /\ resources' = IF r.ok
                           THEN Append(resources,
                                       Resource(kind, r.qty, node_name, usage))
                           ELSE resources
    /\ consumed' = consumed + 1
    /\ UNCHANGED <<res, table>>

\* collect_from_pods returns Ok(())
PodsDone ==
    /\ pc = "pods"
    /\ pc' = "aggregate"
    /\ UNCHANGED <<resources, consumed, parseFailed, res, table>>

\* make_kind_x_usage
MakeKindXUsage ==
    /\ pc = "aggregate"
    /\ \E out \in MakeGroupXUsage(resources, <<>>, 0) : res' = SortByKey(out)
    /\ pc' = "display"
    /\ UNCHANGED <<resources, consumed, parseFailed, table>>

\* display_with_prettytable: the rows of the table, before the quantities
\* are formatted.
DisplayWithPrettytable ==
    /\ pc = "display"
    /\ LET prefixes == ProvidePrefix(res)
       IN  table' = [i \in 1..Len(res) |->
                       [label |-> LastOrDefault(res[i].path),
                        parent |-> prefixes[i],
                        requested |-> res[i].qty.requested,
                        limit |-> res[i].qty.limit,
                        allocatable |-> res[i].qty.allocatable,
                        free |-> CalcFree(res[i].qty)]]
    /\ pc' = "done"
    /\ UNCHANGED <<resources, consumed, parseFailed, res>>

Next ==
    \/ ListNodes
    \/ \E node \in NodeNames, kind \in Kinds :
          \E text \in Texts(kind) : CollectNode(node, kind, text)
    \/ NodesDone
    \/ ListPods
    \/ \E node_name \in {None} \cup {Some(n) : n \in NodeNames},
          kind \in Kinds, usage \in {"Requested", "Limit"} :
          \E text \in Texts(kind) : CollectPod(node_name, kind, usage, text)
    \/ PodsDone
    \/ MakeKindXUsage
    \/ DisplayWithPrettytable

Spec == Init /\ [][Next]_vars

----------------------------------------------------------------------------
(* Vocabulary of the properties *)

Aggregated == pc \in {"display", "done"}

\* The values `out` may have had before the sort (main.rs:77) that gave res.
Emitted == MakeGroupXUsage(resources, <<>>, 0)

Indices(rows) == 1..Len(rows)

\* The observation belongs to the group of this key path.
KeyOf(e, d) == IF d = 1 THEN e.kind
               ELSE IF e.location.node_name = None THEN "" ELSE e.location.node_name[1]

InGroup(e, path) == \A d \in 1..Len(path) : KeyOf(e, d) = path[d]

\* The key paths of every depth that occur among the observations.
PathsOf(rsrcs) ==
    { <<KeyOf(rsrcs[i], 1)>> : i \in 1..Len(rsrcs) }
      \cup { <<KeyOf(rsrcs[i], 1), KeyOf(rsrcs[i], 2)>> : i \in 1..Len(rsrcs) }

RECURSIVE SumOver(_, _)
SumOver(f, S) ==
    IF S = {} THEN QtyDefault
    ELSE LET x == CHOOSE y \in S : TRUE
         IN  QtyAdd(f[x], SumOver(f, S \ {x}))

QtyMax(a, b) == IF QtyGt(b, a) THEN b ELSE a

IsPrefixOf(p, q) == Len(p) <= Len(q) /\ SubSeq(q, 1, Len(p)) = p

Units(n) == [hi |-> 0, lo |-> 1000 * n]

Reorderings(s) ==
    { [i \in 1..Len(s) |-> s[f[i]]] :
        f \in {g \in [1..Len(s) -> 1..Len(s)] : \A i, j \in 1..Len(s) : g[i] = g[j] => i = j} }

\* Every parent row immediately precedes its first child, and the descendants
\* of a row are the rows that follow it up to the next row that is none.
PreOrder(rows) ==
    /\ \A i \in Indices(rows) :
          Len(rows[i].path) > 1 =>
             /\ i > 1
             /\ IsPrefixOf(SubSeq(rows[i].path, 1, Len(rows[i].path) - 1), rows[i - 1].path)
    /\ \A i, j \in Indices(rows) :
          (i < j /\ IsPrefixOf(rows[i].path, rows[j].path)) =>
             \A k \in i..j : IsPrefixOf(rows[i].path, rows[k].path)
    /\ \A i, j \in Indices(rows) :
          (j < i /\ rows[i].path # rows[j].path) => ~IsPrefixOf(rows[i].path, rows[j].path)

----------------------------------------------------------------------------
(* Properties *)

\* C1: calc_free of a row is allocatable - max(limit, requested) when
\* allocatable exceeds that maximum and the zero quantity otherwise (also
\* at equality and when over-committed); it is never negative.
C1_CalcFree ==
    pc = "done" =>
      \A i \in Indices(res) :
        LET q == res[i].qty
            used == QtyMax(q.limit, q.requested)
            free == table[i].free
        IN  /\ ~QtyIsNegative(free)
            /\ QtyGt(q.allocatable, used) => QtyAdd(free, used) = q.allocatable
            /\ ~QtyGt(q.allocatable, used) => free = QtyDefault

C1_Witness ==
    /\ pc = "done"
    /\ \E i \in Indices(res) :
          /\ QtyGt(res[i].qty.allocatable, QtyMax(res[i].qty.limit, res[i].qty.requested))
          /\ res[i].qty.requested # QtyDefault
          /\ table[i].free # QtyDefault
    /\ \E j \in Indices(res) :
          /\ ~QtyGt(res[j].qty.allocatable, res[j].qty.limit)
          /\ res[j].qty.allocatable # QtyDefault
          /\ table[j].free = QtyDefault

\* C2: the requested quantities of the deepest rows below a top-level row
\* add up to the requested quantity of that top-level row.
C2_Completeness ==
    Aggregated =>
      \A i \in Indices(res) :
        Len(res[i].path) = 1 =>
          LET leaves == { j \in Indices(res) :
                            /\ Len(res[j].path) = Len(GroupByFct)
                            /\ IsPrefixOf(res[i].path, res[j].path) }
          IN  SumOver([j \in leaves |-> res[j].qty.requested], leaves)
                = res[i].qty.requested

C2_Witness ==
    /\ Aggregated
    /\ \E i \in Indices(res) :
          /\ Len(res[i].path) = 1
          /\ res[i].qty.requested = Units(3)
          /\ Cardinality({ j \in Indices(res) :
                             /\ Len(res[j].path) = 2
                             /\ IsPrefixOf(res[i].path, res[j].path)
                             /\ res[j].qty.requested # QtyDefault }) = 2
    /\ \E k \in Indices(res) : res[k].path = <<"mem">>

\* C3: the rows are in strictly ascending lexicographic order of key path;
\* the rows are the same for every order of the observations and every order
\* in which the group maps are iterated; the design document's example gives
\* [cpu], [cpu,n1], [cpu,n2], [mem], [mem,n1] with [cpu].requested = 3.
C3_Example ==
    << Resource("cpu", Units(1), Some("n2"), "Requested"),
       Resource("cpu", Units(2), Some("n1"), "Requested"),
       Resource("mem", [hi |-> 1000, lo |-> 0], Some("n1"), "Requested") >>

C3_SortedDeterministic ==
    pc = "display" =>
      /\ \A i \in 1..(Len(res) - 1) : PathLess(res[i].path, res[i + 1].path)
      /\ { res[i].path : i \in Indices(res) } = PathsOf(resources)
      /\ \A out \in Emitted : SortByKey(out) = res
      /\ \A perm \in Reorderings(resources) :
            \A out \in MakeGroupXUsage(perm, <<>>, 0) : SortByKey(out) = res
      /\ resources = C3_Example =>
            /\ [i \in Indices(res) |-> res[i].path]
                 = << <<"cpu">>, <<"cpu", "n1">>, <<"cpu", "n2">>,
                      <<"mem">>, <<"mem", "n1">> >>
            /\ res[1].qty.requested = Units(3)

C3_Witness ==
    /\ pc = "display"
    /\ resources = C3_Example
    /\ \E out \in Emitted : out # res

\* C4: the rows are in pre-order, as pushed by the recursion and after the sort.
C4_PreOrder ==
    pc = "display" => PreOrder(res) /\ \A out \in Emitted : PreOrder(out)

C4_Witness ==
    /\ pc = "display"
    /\ \E out \in Emitted : out # res
    /\ Len(res) >= 5

\* C5: there is exactly one row for each key path of each depth that occurs
\* among the observations, and no path has two rows.
C5_OneRowPerPath ==
    pc = "display" =>
      /\ { res[i].path : i \in Indices(res) } = PathsOf(resources)
      /\ \A i, j \in Indices(res) : res[i].path = res[j].path => i = j
      /\ \A out \in Emitted :
            /\ { out[i].path : i \in Indices(out) } = PathsOf(resources)
            /\ \A i, j \in Indices(out) : out[i].path = out[j].path => i = j

C5_Witness ==
    /\ Aggregated
    /\ Len(resources) = 3
    /\ resources[1].kind = resources[3].kind
    /\ resources[1].kind # resources[2].kind
    /\ resources[1].location.node_name # resources[3].location.node_name
    /\ Len(res) = 5

\* C6: once a quantity fails to parse the run has failed: nothing is
\* aggregated or displayed; a run that goes on has kept every observation.
C6_ParseFailureAborts ==
    /\ parseFailed => (pc = "failed" /\ res = <<>> /\ table = <<>>)
    /\ pc # "failed" => Len(resources) = consumed

C6_Witness ==
    /\ parseFailed
    /\ pc = "failed"
    /\ Len(resources) = 2

\* C7 as stated: the predicate holds exactly when the candidate's path is one
\* shorter than the row's and is a prefix of it.
C7_LengthAndPrefix ==
    pc = "done" =>
      \A i, j \in Indices(res) :
        IsParentOf(res[i], res[j])
          <=> (/\ Len(res[i].path) + 1 = Len(res[j].path)
               /\ IsPrefixOf(res[i].path, res[j].path))

\* C7 amended: the predicate holds exactly when the candidate's path is one
\* shorter than the row's; the components are not compared.
C7_LengthOnly ==
    pc = "done" =>
      \A i, j \in Indices(res) :
        IsParentOf(res[i], res[j]) <=> Len(res[i].path) + 1 = Len(res[j].path)

C7_Witness ==
    /\ pc = "done"
    /\ \E i, j \in Indices(res) :
          /\ Len(res[i].path) + 1 = Len(res[j].path)
          /\ ~IsPrefixOf(res[i].path, res[j].path)
          /\ IsParentOf(res[i], res[j])

\* C8: aggregation returns for every list of observations; called at the
\* depth after the last extractor it returns no rows; every path pushed has
\* between one component and as many as there are extractors; an observation
\* without a node name is in a group whose key is "".
C8_AggregationTotal ==
    /\ Aggregated => \A i \in Indices(res) : Len(res[i].path) \in 1..Len(GroupByFct)
    /\ pc = "aggregate" =>
      /\ Emitted # {}
      /\ MakeGroupXUsage(resources, <<>>, Len(GroupByFct)) = {<<>>}
      /\ \A out \in Emitted :
            /\ \A i \in Indices(out) : Len(out[i].path) \in 1..Len(GroupByFct)
            /\ \A i \in Indices(resources) :
                  resources[i].location.node_name = None =>
                    \E j \in Indices(out) : out[j].path = <<resources[i].kind, "">>
            /\ resources = <<>> => out = <<>>

C8_Witness ==
    /\ Aggregated
    /\ \E i \in Indices(resources) : resources[i].location.node_name = None
    /\ \E j \in Indices(res) : Len(res[j].path) = 2 /\ res[j].path[2] = ""
    /\ \E j \in Indices(res) : Len(res[j].path) = 2 /\ res[j].path[2] # ""

\* C9: each field of a row is the sum of the quantities of the observations
\* of its group that have that usage kind, zero when there are none; folding
\* an observation into an accumulator adds to the field of its usage kind
\* and leaves the other two as they were.
C9_Field(q, usage) ==
    CASE usage = "Limit" -> q.limit
      [] usage = "Requested" -> q.requested
      [] usage = "Allocatable" -> q.allocatable

C9_Accumulation ==
    Aggregated =>
      \A r \in Indices(res) :
        /\ \A usage \in {"Limit", "Requested", "Allocatable"} :
              LET members == { i \in Indices(resources) :
                                 /\ InGroup(resources[i], res[r].path)
                                 /\ resources[i].usage = usage }
              IN  /\ C9_Field(res[r].qty, usage)
                       = SumOver([i \in members |-> resources[i].quantity], members)
                  /\ members = {} => C9_Field(res[r].qty, usage) = QtyDefault
        /\ \A i \in Indices(resources) :
              \A usage \in {"Limit", "Requested", "Allocatable"} :
                 C9_Field(SumStep(res[r].qty, resources[i]), usage)
                   = IF usage = resources[i].usage
                     THEN QtyAdd(C9_Field(res[r].qty, usage), resources[i].quantity)
                     ELSE C9_Field(res[r].qty, usage)

C9_Witness ==
    /\ Aggregated
    /\ \E r \in Indices(res) :
          /\ res[r].qty.limit # QtyDefault
          /\ res[r].qty.requested # QtyDefault
          /\ res[r].qty.allocatable # QtyDefault
          /\ res[r].qty.limit # res[r].qty.requested
    /\ \E r \in Indices(res) : res[r].qty.limit = QtyDefault

\* C10: in the rows of make_kind_x_usage the most recent preceding row for
\* which the predicate holds is the row of the path without its last
\* component; before a top-level row the predicate holds for no row.
C10_ParentIsTrueParent ==
    pc = "done" =>
      \A i \in Indices(res) :
        LET cands == { j \in 1..(i - 1) : IsParentOf(res[j], res[i]) }
        IN  IF Len(res[i].path) > 1
            THEN /\ cands # {}
                 /\ LET p == CHOOSE j \in cands : \A k \in cands : k <= j
                    IN  /\ res[p].path = SubSeq(res[i].path, 1, Len(res[i].path) - 1)
                        /\ table[i].parent = p
            ELSE cands = {} /\ table[i].parent = 0

C10_Witness ==
    /\ pc = "done"
    /\ \E i \in Indices(res) :
          /\ Len(res[i].path) = 2
          /\ table[i].parent > 1
          /\ table[i].parent < i - 1

============================================================================
